---- MODULE Spec2Model ----
(***************************************************************************)
(* skycam: the calibrated image projection (ProjectionService) and the     *)
(* analytical projector (AircraftProjector) as state machines.             *)
(*                                                                         *)
(* Numbers.  Python floats are IEEE-754 binary64.  Where rounding decides  *)
(* the behaviour (the length of the output axes built by numpy.arange)     *)
(* the arithmetic is modelled bit for bit: a float is a significand of     *)
(* Prec bits and an exponent, every operation rounds to nearest-even.      *)
(* Everywhere else values are exact rationals <<num, den>>.                *)
(***************************************************************************)
EXTENDS Integers, Sequences, FiniteSets, TLC

\* ------------------------------------------------------------------------
\* Natural numbers of any size: sequences of limbs in base Base, least
\* significant first, without leading zero limbs (zero is the empty
\* sequence).
\* ------------------------------------------------------------------------

Base == 2^13

LimbBits == CHOOSE k \in 1..30 : 2^k = Base

RECURSIVE NatToL(_)
NatToL(n) == IF n = 0 THEN << >> ELSE <<n % Base>> \o NatToL(n \div Base)

RECURSIVE LToNat(_)
LToNat(l) == IF l = << >> THEN 0 ELSE Head(l) + Base * LToNat(Tail(l))

LNorm(l) ==
    LET nz == {i \in 1..Len(l) : l[i] # 0}
    IN  IF nz = {} THEN << >>
        ELSE SubSeq(l, 1, CHOOSE i \in nz : \A j \in nz : j <= i)

RECURSIVE LAddC(_, _, _)
LAddC(a, b, c) ==
    IF a = << >> /\ b = << >>
    THEN (IF c = 1 THEN <<1>> ELSE << >>)
    ELSE LET u == IF a = << >> THEN 0 ELSE Head(a)
             v == IF b = << >> THEN 0 ELSE Head(b)
             s == u + v + c
         IN  <<s % Base>> \o LAddC(IF a = << >> THEN a ELSE Tail(a),
                                   IF b = << >> THEN b ELSE Tail(b),
                                   s \div Base)

LAdd(a, b) == LAddC(a, b, 0)

\* a >= b is required; the result is a - b.
RECURSIVE LSubC(_, _, _)
LSubC(a, b, c) ==
    IF a = << >> THEN << >>
    ELSE LET v == IF b = << >> THEN 0 ELSE Head(b)
             d == Head(a) - v - c
         IN  <<d % Base>> \o LSubC(Tail(a),
                                   IF b = << >> THEN b ELSE Tail(b),
                                   IF d < 0 THEN 1 ELSE 0)

LSub(a, b) == LNorm(LSubC(a, b, 0))

\* a >= b, both without leading zero limbs.
LGe(a, b) ==
    \/ Len(a) > Len(b)
    \/ /\ Len(a) = Len(b)
       /\ \/ a = b
          \/ \E i \in 1..Len(a) :
                /\ a[i] > b[i]
                /\ \A j \in (i + 1)..Len(a) : a[j] = b[j]

\* Bit i (from 0) of a, and the number of bits of a.
LBit(a, i) ==
    IF (i \div LimbBits) + 1 > Len(a) THEN 0
    ELSE (a[(i \div LimbBits) + 1] \div 2^(i % LimbBits)) % 2

LBitLen(a) ==
    IF a = << >> THEN 0
    ELSE (Len(a) - 1) * LimbBits
         + (CHOOSE k \in 1..LimbBits :
                2^(k - 1) <= a[Len(a)] /\ a[Len(a)] < 2^k)

\* a * 2^k and floor(a / 2^k).
LShl(a, k) ==
    LET q == k \div LimbBits
        s == k % LimbBits
        n == Len(a)
        at(j) == IF j >= 1 /\ j <= n THEN a[j] * 2^s ELSE 0
    IN  IF a = << >> THEN << >>
        ELSE LNorm([j \in 1..(n + q + 1) |->
                      IF j <= q THEN 0
                      ELSE (at(j - q) % Base) + (at(j - q - 1) \div Base)])

LShr(a, k) ==
    LET q == k \div LimbBits
        s == k % LimbBits
        n == Len(a)
        at(j) == IF j >= 1 /\ j <= n THEN a[j] ELSE 0
    IN  IF n <= q THEN << >>
        ELSE LNorm([j \in 1..(n - q) |->
                      (at(j + q) \div 2^s)
                      + (at(j + q + 1) % 2^s) * 2^(LimbBits - s)])

\* Long division, one bit of n at a time from bit hi down to bit lo; qr is
\* <<quotient so far, remainder so far>>.  The bits are folded by halves to
\* keep the evaluation shallow.
LDivBit(n, d, i, qr) ==
    LET r1 == LAdd(LAdd(qr[2], qr[2]), NatToL(LBit(n, i)))
        q1 == LAdd(qr[1], qr[1])
    IN  IF LGe(r1, d)
        THEN <<LAdd(q1, <<1>>), LSub(r1, d)>>
        ELSE <<q1, r1>>

RECURSIVE LDivBits(_, _, _, _, _)
LDivBits(n, d, hi, lo, qr) ==
    IF hi < lo THEN qr
    ELSE IF hi = lo THEN LDivBit(n, d, hi, qr)
    ELSE LET mid == (hi + lo) \div 2
             top == LDivBits(n, d, hi, mid + 1, qr)
         IN  IF top[1] = top[1] THEN LDivBits(n, d, mid, lo, top) ELSE qr

LDivMod(n, d) == LDivBits(n, d, LBitLen(n) - 1, 0, <<<< >>, << >>>>)

\* ------------------------------------------------------------------------
\* binary64: [m |-> significand of Prec bits, e |-> exponent], value m * 2^e.
\* Only positive finite values occur where floats are modelled.
\* ------------------------------------------------------------------------

\* The significand width of a Python float (IEEE-754 binary64).
Prec == 53

\* Round the natural number big * 2^e (plus a non-zero tail below it when
\* sticky) to Prec bits, ties to even.
FRound(big, e, sticky) ==
    LET L == LBitLen(big) IN
    IF L <= Prec
    THEN [m |-> LShl(big, Prec - L), e |-> e - (Prec - L)]
    ELSE LET d     == L - Prec
             kept  == LShr(big, d)
             guard == LBit(big, d - 1)
             st    == sticky \/ (\E i \in 0..(d - 2) : LBit(big, i) = 1)
             up    == guard = 1 /\ (st \/ LBit(kept, 0) = 1)
             m1    == IF up THEN LAdd(kept, <<1>>) ELSE kept
         IN  IF LBitLen(m1) > Prec
             THEN [m |-> LShr(m1, 1), e |-> e + d + 1]
             ELSE [m |-> m1, e |-> e + d]

FFromNat(n) == FRound(NatToL(n), 0, FALSE)

\* x / 2 is exact.
FHalf(a) == [a EXCEPT !.e = @ - 1]

FDiv(a, b) ==
    LET qr == LDivMod(LShl(a.m, Prec + 2), b.m)
    IN  FRound(qr[1], a.e - b.e - (Prec + 2), qr[2] # << >>)

FAdd(a, b) ==
    LET e == IF a.e < b.e THEN a.e ELSE b.e
    IN  FRound(LAdd(LShl(a.m, a.e - e), LShl(b.m, b.e - e)), e, FALSE)

\* ceil of a positive float, as an integer.
FCeil(a) ==
    IF a.e >= 0 THEN LToNat(LShl(a.m, a.e))
    ELSE IF -a.e >= Prec THEN 1
    ELSE LToNat(LShr(a.m, -a.e))
         + (IF \E i \in 0..(-a.e - 1) : LBit(a.m, i) = 1 THEN 1 ELSE 0)

\* ------------------------------------------------------------------------
\* Exact values: <<num, den>> with den > 0 in lowest terms; NaN is <<0, 0>>.
\* ------------------------------------------------------------------------

NaN == <<0, 0>>

IsNaN(v) == v[2] = 0

Abs(k) == IF k < 0 THEN -k ELSE k

RECURSIVE GCD(_, _)
GCD(a, b) == IF b = 0 THEN a ELSE GCD(b, a % b)

RNorm(n, d) ==
    LET g == GCD(Abs(n), Abs(d))
        sg == IF d < 0 THEN -1 ELSE 1
    IN  <<(sg * n) \div g, (sg * d) \div g>>

R(k) == <<k, 1>>

\* IEEE arithmetic: NaN in, NaN out.
RAdd(a, b) ==
    IF IsNaN(a) \/ IsNaN(b) THEN NaN
    ELSE RNorm(a[1] * b[2] + b[1] * a[2], a[2] * b[2])

RSub(a, b) ==
    IF IsNaN(a) \/ IsNaN(b) THEN NaN
    ELSE RNorm(a[1] * b[2] - b[1] * a[2], a[2] * b[2])

RMul(a, b) ==
    IF IsNaN(a) \/ IsNaN(b) THEN NaN
    ELSE RNorm(a[1] * b[1], a[2] * b[2])

\* IEEE comparison: false when either side is NaN.
RLt(a, b) == ~IsNaN(a) /\ ~IsNaN(b) /\ a[1] * b[2] < b[1] * a[2]

RFloor(a) == a[1] \div a[2]

\* None, for an Optional field that holds no object.
None == [none |-> TRUE]

\* The one element of a singleton set.  Only({e(v) : v \in {d}}) is e with
\* v standing for the value of d, which is computed once.
Only(S) == CHOOSE v \in S : TRUE

\* ------------------------------------------------------------------------
\* Angles.  The code computes angles with arctan and arctan2; the model
\* keeps them on a lattice.  An azimuth is counted in units of pi/4,
\* rounded down, so that the alignment formula (its 3*pi/2, 2*pi and pi are
\* 6, 8 and 4 units) acts on the lattice exactly as on the reals.  A zenith
\* is counted in units of its tangent, rounded up and capped at ZenCap: the
\* zenith z of a cell is the least k with r <= k * cloud_height, which is
\* decided exactly by comparing squares.  Calibration maps and
\* max_zenith_angle are given in the same units.
\* ------------------------------------------------------------------------

\* The largest zenith unit of the lattice.
ZenCap == 3

AzUnits == -4..3

ZenUnits == 0..ZenCap

Ang == AzUnits \X ZenUnits

\* numpy.arange(start, stop, step) has ceil((stop - start) / step) entries,
\* computed in binary64 from the Python floats it is given.  Here
\* start = -half_size and stop = half_size + step.
ArangeLen(square_size, resolution) ==
    LET half_size == FHalf(FFromNat(square_size))
        step      == FDiv(FFromNat(square_size), FFromNat(resolution - 1))
        stop      == FAdd(half_size, step)
    IN  FCeil(FDiv(FAdd(stop, half_size), step))

\* Entry k (from 0) of an output axis is -half_size + k * step; as an exact
\* value it is AxisNum / AxisDen.
AxisNum(settings, k) == settings.square_size * (2 * k - (settings.resolution - 1))

AxisDen(settings) == 2 * (settings.resolution - 1)

\* floor(arctan2(y, x) / (pi/4)), with arctan2(0, 0) = 0.
Atan2Units(y, x) ==
    IF y >= 0
    THEN IF x > 0 THEN (IF y < x THEN 0 ELSE 1)
         ELSE IF x = 0 THEN (IF y > 0 THEN 2 ELSE 0)
         ELSE IF y > -x THEN 2
         ELSE IF y > 0 THEN 3
         ELSE 4
    ELSE IF x > 0 THEN (IF -y <= x THEN -1 ELSE -2)
         ELSE IF x = 0 THEN -2
         ELSE IF -y >= -x THEN -3
         ELSE -4

\* interpolation_azimuth = (interpolation_azimuth - 3*pi/2) % (2*pi) - pi
AlignAzimuth(az) == ((az - 6) % 8) - 4

\* arctan(r / cloud_height) with r = sqrt(x^2 + y^2), in zenith units.
ArctanUnits(settings, xn, yn) ==
    LET fits(k) == xn * xn + yn * yn
                     <= (k * AxisDen(settings) * settings.cloud_height)
                        * (k * AxisDen(settings) * settings.cloud_height)
    IN  IF \E k \in ZenUnits : fits(k)
        THEN CHOOSE k \in ZenUnits : fits(k) /\ \A j \in 0..(k - 1) : ~fits(j)
        ELSE ZenCap

\* The output grid of _init_interpolators: for cell <<i, j>> (from 1) of
\* meshgrid(x, y), x[j] and y[i]; then <<azimuth, zenith>>.
AzimuthZenithGrid(settings) ==
    Only({[n  |-> n,
           at |-> [c \in (1..n) \X (1..n) |->
                     Only({<<AlignAzimuth(Atan2Units(xy[2], xy[1])),
                             ArctanUnits(settings, xy[1], xy[2])>> :
                           xy \in {<<AxisNum(settings, c[2] - 1),
                                     AxisNum(settings, c[1] - 1)>>}})]] :
          n \in {ArangeLen(settings.square_size, settings.resolution)}})

\* ------------------------------------------------------------------------
\* Calibration masking and the interpolant (LinearNDInterpolator).
\* A calibration is [image_size |-> <<H, W>>, azimuth_array, zenith_array],
\* the arrays being sequences of rows of values (lattice values or NaN).
\* ------------------------------------------------------------------------

Rows(arr) == Len(arr)

Cols(arr) == IF arr = << >> THEN 0 ELSE Len(arr[1])

\* ndarray.flatten(): row-major.
Flatten(arr) ==
    [k \in 1..(Rows(arr) * Cols(arr)) |->
        arr[((k - 1) \div Cols(arr)) + 1][((k - 1) % Cols(arr)) + 1]]

\* A restriction that also masks the pixels whose zenith equals the limit.
RestrictionAtLimit(zenith_array, max_zenith) ==
    [i \in 1..Rows(zenith_array) |->
        [j \in 1..Cols(zenith_array) |->
            IF RLt(zenith_array[i][j], R(max_zenith)) THEN R(1) ELSE NaN]]

\* restriction_array = np.where(zenith_array > max_zenith * pi / 180, nan, 1.0)
Restriction(zenith_array, max_zenith) ==
    [i \in 1..Rows(zenith_array) |->
        [j \in 1..Cols(zenith_array) |->
            IF RLt(R(max_zenith), zenith_array[i][j]) THEN NaN ELSE R(1)]]

\* Element-wise product of two arrays of one shape.
Times(a, b) ==
    [i \in 1..Rows(a) |-> [j \in 1..Cols(a) |-> RMul(a[i][j], b[i][j])]]

\* mask_nan = np.isnan(flattened_azimuth) | np.isnan(flattened_zenith)
MaskNan(flat_az, flat_zen) ==
    [k \in 1..Len(flat_az) |-> IsNaN(flat_az[k]) \/ IsNaN(flat_zen[k])]

\* The positions kept by arr[~mask], in increasing order.
Kept(mask) ==
    LET keep == {k \in 1..Len(mask) : ~mask[k]}
    IN  [i \in 1..Cardinality(keep) |->
            CHOOSE k \in keep : Cardinality({j \in keep : j <= k}) = i]

\* Raw coordinates counted down the columns of the calibration maps.
RawCoordinateColumnMajor(image_size, k) ==
    <<(k - 1) % image_size[1], (k - 1) \div image_size[1]>>

\* grid = np.meshgrid(np.arange(image_size[0]), np.arange(image_size[1]));
\* grid[0].T.flatten()[k] and grid[1].T.flatten()[k], k from 1.
RawCoordinate(image_size, k) ==
    <<(k - 1) \div image_size[2], (k - 1) % image_size[2]>>

\* Twice the signed area of triangle a, b, c.
Orient(a, b, c) ==
    (b[1] - a[1]) * (c[2] - a[2]) - (b[2] - a[2]) * (c[1] - a[1])

Sign(k) == IF k > 0 THEN 1 ELSE IF k < 0 THEN -1 ELSE 0

\* q lies in the closed triangle a, b, c (which is not flat).
InTriangle(q, a, b, c) ==
    LET s == Sign(Orient(a, b, c))
    IN  /\ s * Orient(q, b, c) >= 0
        /\ s * Orient(a, q, c) >= 0
        /\ s * Orient(a, b, q) >= 0

\* p lies strictly inside the circle through a, b, c.
InCircle(a, b, c, p) ==
    LET ax == a[1] - p[1]
        ay == a[2] - p[2]
        bx == b[1] - p[1]
        by == b[2] - p[2]
        cx == c[1] - p[1]
        cy == c[2] - p[2]
        det == (ax * ax + ay * ay) * (bx * cy - cx * by)
               - (bx * bx + by * by) * (ax * cy - cx * ay)
               + (cx * cx + cy * cy) * (ax * by - bx * ay)
    IN  Sign(Orient(a, b, c)) * det > 0

\* The triangles a Delaunay triangulation of the points may hold: not flat,
\* no other point strictly inside the circumcircle.  Each is a set of three
\* positions of the sequence points.
DelaunayTriangles(points) ==
    LET idx == 1..Len(points)
    IN  {t \in SUBSET idx :
            /\ Cardinality(t) = 3
            /\ LET a == CHOOSE i \in t : \A j \in t : i <= j
                   c == CHOOSE i \in t : \A j \in t : j <= i
                   b == CHOOSE i \in t : i # a /\ i # c
               IN  /\ Orient(points[a], points[b], points[c]) # 0
                   /\ \A k \in idx \ t :
                        ~InCircle(points[a], points[b], points[c], points[k])}

\* The barycentric blend at q of the values at the corners of triangle t.
Blend(points, values, t, q) ==
    LET a == CHOOSE i \in t : \A j \in t : i <= j
        c == CHOOSE i \in t : \A j \in t : j <= i
        b == CHOOSE i \in t : i # a /\ i # c
        wa == Orient(q, points[b], points[c])
        wb == Orient(points[a], q, points[c])
        wc == Orient(points[a], points[b], q)
        blend(d) == RNorm(wa * values[a][d] + wb * values[b][d] + wc * values[c][d],
                          wa + wb + wc)
    IN  <<blend(1), blend(2)>>

\* LinearNDInterpolator.__call__ at one query: the blend in a triangle that
\* holds q, NaN (the default fill_value) outside the convex hull.  Where
\* several triangles hold q (a shared edge, or co-circular points whose
\* triangulation Qhull settles) one of them is taken; on a shared edge all
\* give the same value.
Interpolate(points, values, q) ==
    LET holds == {t \in DelaunayTriangles(points) :
                    LET a == CHOOSE i \in t : \A j \in t : i <= j
                        c == CHOOSE i \in t : \A j \in t : j <= i
                        b == CHOOSE i \in t : i # a /\ i # c
                    IN  InTriangle(q, points[a], points[b], points[c])}
    IN  IF holds = {} THEN <<NaN, NaN>>
        ELSE Blend(points, values, CHOOSE t \in holds : TRUE, q)

\* The samples left after masking: pixels whose zenith exceeds max_zenith
\* or whose calibration is NaN are dropped; what is left is the (azimuth,
\* zenith) of each kept pixel and its raw (row, col).
MaskedSamples(calibration, settings) ==
    Only({Only({[size   |-> Len(flat[1]),
                 points |-> [i \in 1..Len(kept) |->
                               <<flat[1][kept[i]][1], flat[2][kept[i]][1]>>],
                 values |-> [i \in 1..Len(kept) |->
                               RawCoordinate(calibration.image_size, kept[i])]] :
                kept \in {Kept(MaskNan(flat[1], flat[2]))}}) :
          flat \in {Only({<<Flatten(Times(restriction, calibration.azimuth_array)),
                            Flatten(Times(restriction, calibration.zenith_array))>> :
                          restriction \in {Restriction(calibration.zenith_array,
                                                       settings.max_zenith_angle)}})}})

\* _init_interpolators: the output grid, the masked samples and the
\* interpolant.  raised names the exception that leaves the method, "none"
\* when it returns.  LinearNDInterpolator triangulates the samples: scipy
\* raises ValueError when there is no sample and QhullError when there is
\* no triangle that is not flat; the method catches neither.
InitInterpolators(calibration, settings) ==
    Only({IF s.size # calibration.image_size[1] * calibration.image_size[2]
          THEN [raised |-> "IndexError", grid |-> None, interp |-> None]
          ELSE IF Len(s.points) = 0
          THEN [raised |-> "ValueError", grid |-> None, interp |-> None]
          ELSE IF DelaunayTriangles(s.points) = {}
          THEN [raised |-> "QhullError", grid |-> None, interp |-> None]
          ELSE [raised |-> "none",
                grid   |-> AzimuthZenithGrid(settings),
                interp |-> [points |-> s.points,
                            values |-> s.values,
                            at |-> [q \in Ang |-> Interpolate(s.points, s.values, q)]]] :
          s \in {MaskedSamples(calibration, settings)}})

\* ------------------------------------------------------------------------
\* Images and the regular-grid sampler of project.
\* An image is [shape |-> <<H, W, C>>, px |-> pixel <<i, j>> (from 0) to
\* its C channel values]; a one-dimensional array has shape <<L>>.
\* ------------------------------------------------------------------------

\* A sampler that weighs the far corner of the cell where PixelToRgb weighs
\* the near one.
PixelToRgbFarCorner(image, q) ==
    LET H == image.shape[1]
        W == image.shape[2]
        C == image.shape[3]
        r == q[1]
        c == q[2]
    IN  IF IsNaN(r) \/ IsNaN(c) THEN [ch \in 1..C |-> NaN]
        ELSE IF \/ RLt(r, R(0)) \/ RLt(R(H - 1), r)
                \/ RLt(c, R(0)) \/ RLt(R(W - 1), c)
        THEN [ch \in 1..C |-> R(0)]
        ELSE LET i0 == IF RFloor(r) > H - 2 THEN H - 2 ELSE RFloor(r)
                 j0 == IF RFloor(c) > W - 2 THEN W - 2 ELSE RFloor(c)
                 t  == RSub(r, R(i0))
                 u  == RSub(c, R(j0))
                 w(a, b) == RMul(IF a = 1 THEN RSub(R(1), t) ELSE t,
                                 IF b = 1 THEN RSub(R(1), u) ELSE u)
                 p(a, b, ch) == R(image.px[<<i0 + a, j0 + b>>][ch])
             IN  [ch \in 1..C |->
                    RAdd(RAdd(RMul(w(0, 0), p(0, 0, ch)), RMul(w(1, 0), p(1, 0, ch))),
                         RAdd(RMul(w(0, 1), p(0, 1, ch)), RMul(w(1, 1), p(1, 1, ch))))]

\* RegularGridInterpolator((x_r, y_r), image, bounds_error=False,
\* fill_value=0) at one query <<r, c>>: linear in each axis between the two
\* grid lines around the query (the last interval for a query on the last
\* grid line); fill_value outside [0, H-1] x [0, W-1]; NaN for a NaN query.
PixelToRgb(image, q) ==
    LET H == image.shape[1]
        W == image.shape[2]
        C == image.shape[3]
        r == q[1]
        c == q[2]
    IN  IF IsNaN(r) \/ IsNaN(c) THEN [ch \in 1..C |-> NaN]
        ELSE IF \/ RLt(r, R(0)) \/ RLt(R(H - 1), r)
                \/ RLt(c, R(0)) \/ RLt(R(W - 1), c)
        THEN [ch \in 1..C |-> R(0)]
        ELSE LET i0 == IF RFloor(r) > H - 2 THEN H - 2 ELSE RFloor(r)
                 j0 == IF RFloor(c) > W - 2 THEN W - 2 ELSE RFloor(c)
                 t  == RSub(r, R(i0))
                 u  == RSub(c, R(j0))
                 w(a, b) == RMul(IF a = 0 THEN RSub(R(1), t) ELSE t,
                                 IF b = 0 THEN RSub(R(1), u) ELSE u)
                 p(a, b, ch) == R(image.px[<<i0 + a, j0 + b>>][ch])
             IN  [ch \in 1..C |->
                    RAdd(RAdd(RMul(w(0, 0), p(0, 0, ch)), RMul(w(1, 0), p(1, 0, ch))),
                         RAdd(RMul(w(0, 1), p(0, 1, ch)), RMul(w(1, 1), p(1, 1, ch))))]

\* ndarray.astype(np.uint8) of one float64 value in [0, 255] or NaN:
\* truncation; the conversion of NaN is undefined in C, nan_u8 is what the
\* build at hand makes of it.
AsUint8(v, nan_u8) == IF IsNaN(v) THEN R(nan_u8) ELSE R(RFloor(v))

\* ------------------------------------------------------------------------
\* The inputs the callers hold.
\* ------------------------------------------------------------------------

\* Threads that share the service.
NThreads == 2

\* Output grids: square_size in 1..MaxSquare, resolution in 2..MaxRes.
MaxSquare == 7

MaxRes == 6

Lattice(rows) == [i \in 1..Len(rows) |-> [j \in 1..Len(rows[i]) |-> R(rows[i][j])]]

\* Every raw pixel calibrated: the four corners of azimuth -4..3, zenith 0..2.
CalFull ==
    [image_size    |-> <<2, 2>>,
     azimuth_array |-> Lattice(<< <<-4, 3>>, <<-4, 3>> >>),
     zenith_array  |-> Lattice(<< <<0, 0>>, <<2, 2>> >>)]

\* One raw pixel without calibration (NaN in both maps).
CalHole ==
    [image_size    |-> <<2, 2>>,
     azimuth_array |-> [CalFull.azimuth_array EXCEPT ![2][2] = NaN],
     zenith_array  |-> [CalFull.zenith_array EXCEPT ![2][2] = NaN]]

\* No raw pixel calibrated.
CalNone ==
    [image_size    |-> <<2, 2>>,
     azimuth_array |-> [i \in 1..2 |-> [j \in 1..2 |-> NaN]],
     zenith_array  |-> [i \in 1..2 |-> [j \in 1..2 |-> NaN]]]

\* Two raw pixels above max_zenith_angle: two samples are left.
CalTwo ==
    [image_size    |-> <<2, 2>>,
     azimuth_array |-> CalFull.azimuth_array,
     zenith_array  |-> Lattice(<< <<0, 3>>, <<3, 2>> >>)]

\* One raw pixel without calibration, the other three on one line.
CalLine ==
    [image_size    |-> <<2, 2>>,
     azimuth_array |-> [Lattice(<< <<-4, -2>>, <<0, 0>> >>) EXCEPT ![2][2] = NaN],
     zenith_array  |-> [Lattice(<< <<0, 1>>, <<2, 0>> >>) EXCEPT ![2][2] = NaN]]

\* Calibrations whose samples make a triangulation, and calibrations
\* whose samples make none.
Degenerate == {CalNone, CalTwo, CalLine}

Calibrations == {CalFull, CalHole} \cup Degenerate

Settings(square_size, resolution) ==
    [resolution       |-> resolution,
     square_size      |-> square_size,
     cloud_height     |-> 1,
     max_zenith_angle |-> 2]

\* The channel values of pixel <<i, j>> of a test image: none of them 0.
TestPixel(i, j, C) == [ch \in 1..C |-> 40 + 100 * i + 30 * j + 8 * ch]

TestImage(H, W, C) ==
    [shape |-> <<H, W, C>>,
     px    |-> [ij \in (0..(H - 1)) \X (0..(W - 1)) |-> TestPixel(ij[1], ij[2], C)]]

\* The images by name: "rgb" has the image_size of the calibrations, "big"
\* has another height and width, "flat" is a one-dimensional array.
Image(id) ==
    CASE id = "rgb"  -> TestImage(2, 2, 3)
      [] id = "big"  -> TestImage(3, 3, 1)
      [] id = "flat" -> [shape |-> <<4>>, px |-> << >>]

ImageIds == {"rgb", "big", "flat"}

\* What astype(np.uint8) makes of NaN: 0 where the conversion goes through
\* a 32-bit integer that reads NaN as 0 or as the minimum (x86-64, AArch64),
\* 255 where it reads NaN as the maximum (RISC-V).
NanCastOutcomes == {0, 255}

VARIABLES
    world,      \* what the callers hold: calibration, settings, images, threads, nan_u8
    service,    \* the ProjectionService instance, None before the constructor returns
    ctor,       \* the last constructor call: its lazy_init keyword and what it raised
    builds,     \* how many times _init_interpolators has built the interpolant
    thr,        \* per thread: where it is in project, and its arguments and locals
    returns,    \* the project calls that have ended: arguments and result
    repeated,   \* history: some call has ended whose arguments an earlier call had
    smp,        \* a batch of queries put to the sampler of project, and its result
    cal,        \* a calibration put to the masking of _init_interpolators, and its samples
    ap,         \* the last call of an AircraftProjector conversion, and its result
    cfg,        \* the last AircraftProjectionSettings call, and the settings object
    prj,        \* the AircraftProjector instance, None before its constructor returns
    acall       \* per thread: where it is in a method of the projector, and its result

vars == <<world, service, ctor, builds, thr, returns, repeated, smp, cal, ap, cfg, prj, acall>>

Idle == [pc |-> "idle", image |-> "rgb", as_uint8 |-> TRUE, projected_grid |-> None]

InitWith(calibrations, settings, images, nthreads, casts) ==
    /\ world \in [calibration : calibrations,
                  settings    : settings,
                  images      : images,
                  threads     : {1..nthreads},
                  nan_u8      : casts]
    /\ service = None
    /\ ctor = [called |-> FALSE, lazy_init |-> "absent", raised |-> "none"]
    /\ builds = 0
    /\ thr = [t \in 1..NThreads |-> Idle]
    /\ returns = {}
    /\ repeated = FALSE
    /\ smp = None
    /\ cal = None
    /\ ap = None
    /\ cfg = None
    /\ prj = None
    /\ acall = None

\* The callers hold the image of the calibration's size and one other.
Init ==
    InitWith(Calibrations, {Settings(4, 3)}, {{"rgb", "big"}, {"rgb", "flat"}},
             NThreads, NanCastOutcomes)

\* A constructor that puts the build off to the first use and leaves the
\* fields None.
PostInitSkipped(calibration, settings) ==
    [raised |-> "none", grid |-> None, interp |-> None]

\* A constructor that builds the interpolant and leaves the output grid None.
PostInitWithoutGrid(calibration, settings) ==
    [InitInterpolators(calibration, settings) EXCEPT !.grid = None]

\* __post_init__: the interpolators are built in the constructor.
PostInit(calibration, settings) == InitInterpolators(calibration, settings)

\* ProjectionService(calibration=..., settings=...[, lazy_init=...]).  The
\* dataclass takes calibration and settings; its three private fields are
\* init=False.  Any other keyword is a TypeError and no instance is made.
Construct(lazy_init) ==
    /\ service = None
    /\ IF lazy_init # "absent"
       THEN /\ ctor' = [called |-> TRUE, lazy_init |-> lazy_init, raised |-> "TypeError"]
            /\ UNCHANGED <<service, builds>>
       ELSE \E b \in {PostInit(world.calibration, world.settings)} :
                IF b.raised # "none"
                THEN /\ ctor' = [called |-> TRUE, lazy_init |-> lazy_init,
                                 raised |-> b.raised]
                     /\ UNCHANGED <<service, builds>>
                ELSE /\ ctor' = [called |-> TRUE, lazy_init |-> lazy_init,
                                 raised |-> "none"]
                     /\ service' = [calibration |-> world.calibration,
                                    settings    |-> world.settings,
                                    azimuth_zenith_to_pixel_raw |-> b.interp,
                                    interpolation_grid  |-> None,
                                    azimuth_zenith_grid |-> b.grid]
                     /\ builds' = builds + (IF b.interp = None THEN 0 ELSE 1)
    /\ UNCHANGED <<world, thr, returns, repeated, smp, cal, ap, cfg, prj, acall>>

\* A call of project ends: with a result, or raising.
Ended(image, as_uint8, raised, out) ==
    /\ returns' = returns \cup
          {[image |-> image, as_uint8 |-> as_uint8, raised |-> raised, out |-> out]}
    /\ repeated' = (repeated \/ \E r \in returns :
                                   r.image = image /\ r.as_uint8 = as_uint8)

\* project, lines 152-155: the two guards before the try block.
ProjectCall(t, image, as_uint8) ==
    /\ service # None
    /\ t \in world.threads
    /\ image \in world.images
    /\ thr[t].pc = "idle"
    /\ IF service.azimuth_zenith_to_pixel_raw = None
       THEN /\ Ended(image, as_uint8,
                       "ProjectionError: Interpolators not initialized", None)
            /\ UNCHANGED thr
       ELSE IF service.azimuth_zenith_grid = None
       THEN /\ Ended(image, as_uint8, "ProjectionError: Grid not initialized", None)
            /\ UNCHANGED thr
       ELSE /\ thr' = [thr EXCEPT ![t] = [pc |-> "try", image |-> image,
                                          as_uint8 |-> as_uint8,
                                          projected_grid |-> None]]
            /\ UNCHANGED <<returns, repeated>>
    /\ UNCHANGED <<world, service, ctor, builds, smp, cal, ap, cfg, prj, acall>>

\* A project whose except clause drops the interpolant of the service
\* before it raises.
ProjectEvaluateClearing(t) ==
    /\ thr[t].pc = "try"
    /\ IF Len(Image(thr[t].image).shape) < 2
          \/ service.azimuth_zenith_to_pixel_raw = None
          \/ service.azimuth_zenith_grid = None
       THEN /\ Ended(thr[t].image, thr[t].as_uint8,
                       "ProjectionError: Projection failed", None)
            /\ thr' = [thr EXCEPT ![t] = Idle]
            /\ service' = [service EXCEPT !.azimuth_zenith_to_pixel_raw = None]
       ELSE /\ thr' = [thr EXCEPT ![t].pc = "sample",
                                  ![t].projected_grid =
                           [c \in DOMAIN service.azimuth_zenith_grid.at |->
                              service.azimuth_zenith_to_pixel_raw.at[
                                  service.azimuth_zenith_grid.at[c]]]]
            /\ UNCHANGED <<returns, repeated, service>>
    /\ UNCHANGED <<world, ctor, builds, smp, cal, ap, cfg, prj, acall>>

\* project, lines 157-171: the sampler is made from the image's own shape
\* (image.shape[1] of a one-dimensional array is an IndexError), then the
\* interpolant is evaluated on the output grid.  Any exception of the try
\* block leaves project as a ProjectionError.
ProjectEvaluate(t) ==
    /\ thr[t].pc = "try"
    /\ IF Len(Image(thr[t].image).shape) < 2
          \/ service.azimuth_zenith_to_pixel_raw = None
          \/ service.azimuth_zenith_grid = None
       THEN /\ Ended(thr[t].image, thr[t].as_uint8,
                       "ProjectionError: Projection failed", None)
            /\ thr' = [thr EXCEPT ![t] = Idle]
       ELSE /\ thr' = [thr EXCEPT ![t].pc = "sample",
                                  ![t].projected_grid =
                           [c \in DOMAIN service.azimuth_zenith_grid.at |->
                              service.azimuth_zenith_to_pixel_raw.at[
                                  service.azimuth_zenith_grid.at[c]]]]
            /\ UNCHANGED <<returns, repeated>>
    /\ UNCHANGED <<world, service, ctor, builds, smp, cal, ap, cfg, prj, acall>>

\* A project that keeps the sampler of an earlier call: once a call on
\* another image has returned, that image is sampled instead.
ProjectedImageStale(image, projected_grid, as_uint8, nan_u8) ==
    LET stale == {r.image : r \in {q \in returns :
                                     q.raised = "none" /\ Image(q.image) # image}}
        used  == IF stale = {} THEN image ELSE Image(CHOOSE i \in stale : TRUE)
    IN  [c \in DOMAIN projected_grid |->
            IF as_uint8
            THEN [ch \in 1..used.shape[3] |->
                    AsUint8(PixelToRgb(used, projected_grid[c])[ch], nan_u8)]
            ELSE PixelToRgb(used, projected_grid[c])]

\* project, lines 173-180: the image is sampled at the projected
\* coordinates and the result is returned as uint8 or as float64.
ProjectedImage(image, projected_grid, as_uint8, nan_u8) ==
    [c \in DOMAIN projected_grid |->
        LET v == PixelToRgb(image, projected_grid[c])
        IN  IF as_uint8 THEN [ch \in DOMAIN v |-> AsUint8(v[ch], nan_u8)] ELSE v]

ProjectReturn(t) ==
    /\ thr[t].pc = "sample"
    /\ Ended(thr[t].image, thr[t].as_uint8, "none",
             [dtype |-> IF thr[t].as_uint8 THEN "uint8" ELSE "float64",
              data  |-> ProjectedImage(Image(thr[t].image), thr[t].projected_grid,
                                       thr[t].as_uint8, world.nan_u8)])
    /\ thr' = [thr EXCEPT ![t] = Idle]
    /\ UNCHANGED <<world, service, ctor, builds, smp, cal, ap, cfg, prj, acall>>

Next ==
    \/ \E lazy_init \in {"absent", "True", "False"} : Construct(lazy_init)
    \/ \E t \in 1..NThreads, image \in ImageIds, as_uint8 \in BOOLEAN :
          ProjectCall(t, image, as_uint8)
    \/ \E t \in 1..NThreads : ProjectEvaluate(t)
    \/ \E t \in 1..NThreads : ProjectReturn(t)

Spec == Init /\ [][Next]_vars

\* ------------------------------------------------------------------------
\* The service over a sweep of output grids.
\* ------------------------------------------------------------------------

InitGrid ==
    InitWith({CalFull},
             {Settings(square_size, resolution) :
                  square_size \in 1..MaxSquare, resolution \in 2..MaxRes},
             {{"rgb"}}, 1, {0})

SpecGrid == InitGrid /\ [][Next]_vars

\* ------------------------------------------------------------------------
\* The sampler of project, put to batches of queries of its own.
\* ------------------------------------------------------------------------

\* Queries in one batch.
BatchLen == 2

\* Row and column coordinates of the queries: NaN, below the grid, on the
\* first line, between lines, on the last line of "rgb", on the last line
\* of "big" (beyond the grid of "rgb").
Coordinates == {NaN, <<-1, 2>>, R(0), <<1, 2>>, R(1), R(2)}

InitSampler ==
    /\ world = None
    /\ service = None
    /\ ctor = [called |-> FALSE, lazy_init |-> "absent", raised |-> "none"]
    /\ builds = 0
    /\ thr = [t \in 1..NThreads |-> Idle]
    /\ returns = {}
    /\ repeated = FALSE
    /\ smp \in [image : {"rgb", "big"},
                rows  : [1..BatchLen -> Coordinates],
                cols  : [1..BatchLen -> Coordinates],
                out   : {None}]
    /\ cal = None
    /\ ap = None
    /\ cfg = None
    /\ prj = None
    /\ acall = None

\* pixel_to_rgb((rows, cols)): each query is answered on its own.
SampleBatch ==
    /\ smp # None
    /\ smp.out = None
    /\ smp' = [smp EXCEPT !.out =
                 [k \in 1..BatchLen |->
                     PixelToRgb(Image(smp.image), <<smp.rows[k], smp.cols[k]>>)]]
    /\ UNCHANGED <<world, service, ctor, builds, thr, returns, repeated, cal, ap, cfg, prj, acall>>

NextSampler == SampleBatch

SpecSampler == InitSampler /\ [][NextSampler]_vars

\* ------------------------------------------------------------------------
\* The masking of _init_interpolators on its own: calibrations of every
\* image_size of at most MaxPixels raw pixels, each pixel calibrated or not.
\* ------------------------------------------------------------------------

MaxPixels == 6

ImageSizes ==
    {s \in (1..MaxPixels) \X (1..MaxPixels) : s[1] * s[2] <= MaxPixels}

\* What the calibration holds for a raw pixel: an azimuth and a zenith
\* within max_zenith_angle, NaN in one map or in both, or a zenith beyond
\* max_zenith_angle.
Marks == {"valid", "azimuth_nan", "zenith_nan", "both_nan", "beyond"}

\* The calibration of the k-th raw pixel (row-major, from 1) where it is
\* valid: no two pixels have the same, and every third pixel has the zenith
\* max_zenith_angle itself.
OwnAzimuth(k) == R(((k - 1) \div 3) - 4)

OwnZenith(k) == R(2 - ((k - 1) % 3))

CalMarked(size, marks) ==
    [image_size    |-> size,
     azimuth_array |->
        [i \in 1..size[1] |-> [j \in 1..size[2] |->
            LET k == (i - 1) * size[2] + j
            IN  IF marks[k] \in {"azimuth_nan", "both_nan"} THEN NaN
                ELSE OwnAzimuth(k)]],
     zenith_array  |->
        [i \in 1..size[1] |-> [j \in 1..size[2] |->
            LET k == (i - 1) * size[2] + j
            IN  IF marks[k] \in {"zenith_nan", "both_nan"} THEN NaN
                ELSE IF marks[k] = "beyond" THEN R(3)
                ELSE OwnZenith(k)]]]

InitSamples ==
    /\ world = None
    /\ service = None
    /\ ctor = [called |-> FALSE, lazy_init |-> "absent", raised |-> "none"]
    /\ builds = 0
    /\ thr = [t \in 1..NThreads |-> Idle]
    /\ returns = {}
    /\ repeated = FALSE
    /\ smp = None
    /\ \E size \in ImageSizes :
          \E marks \in [1..(size[1] * size[2]) -> Marks] :
              cal = [calibration |-> CalMarked(size, marks),
                     settings    |-> Settings(4, 3),
                     samples     |-> None]
    /\ ap = None
    /\ cfg = None
    /\ prj = None
    /\ acall = None

\* _init_interpolators, lines 105-128: the restriction, the mask and the
\* samples left with their raw coordinates.
MaskSamples ==
    /\ cal # None
    /\ cal.samples = None
    /\ cal' = [cal EXCEPT !.samples = MaskedSamples(cal.calibration, cal.settings)]
    /\ UNCHANGED <<world, service, ctor, builds, thr, returns, repeated, smp, ap, cfg, prj, acall>>

NextSamples == MaskSamples

SpecSamples == InitSamples /\ [][NextSamples]_vars

\* ------------------------------------------------------------------------
\* AircraftProjector: the validation of the conversions' arguments.
\* ------------------------------------------------------------------------

\* Longest axis of an argument.
MaxAxis == 2

\* Shapes of the arguments: a scalar, and arrays of one and two axes.
Shapes == {<< >>} \cup {<<n>> : n \in 1..MaxAxis}
                  \cup {<<m, n>> : m \in 1..MaxAxis, n \in 1..MaxAxis}

\* np.atleast_1d(np.asarray(a, dtype=np.float64)).shape
AtLeast1d(shape) == IF shape = << >> THEN <<1>> ELSE shape

\* A comparison of the first two shapes only.
ShapesMatchFirstTwo(a, b, c) == a = b

\* lon.shape == lat.shape == alt_m.shape
ShapesMatch(a, b, c) == a = b /\ b = c

\* A conversion called with arguments of the given shapes: the arguments
\* are made arrays of at least one axis and their shapes are compared; only
\* then is the chain entered that holds the geodesic computation, which
\* gives arrays of the arguments' shape.
Convert(op, a, b, c) ==
    IF ~ShapesMatch(AtLeast1d(a), AtLeast1d(b), AtLeast1d(c))
    THEN [op |-> op, shapes |-> <<a, b, c>>, raised |-> "ValueError",
          geodesic |-> FALSE, out |-> None]
    ELSE [op |-> op, shapes |-> <<a, b, c>>, raised |-> "none",
          geodesic |-> TRUE, out |-> AtLeast1d(a)]

InitAircraft ==
    /\ world = None
    /\ service = None
    /\ ctor = [called |-> FALSE, lazy_init |-> "absent", raised |-> "none"]
    /\ builds = 0
    /\ thr = [t \in 1..NThreads |-> Idle]
    /\ returns = {}
    /\ repeated = FALSE
    /\ smp = None
    /\ cal = None
    /\ ap = None
    /\ cfg = None
    /\ prj = None
    /\ acall = None

lonlat_to_pixels(lon, lat, alt_m) ==
    /\ ap' = Convert("lonlat_to_pixels", lon, lat, alt_m)
    /\ UNCHANGED <<world, service, ctor, builds, thr, returns, repeated, smp, cal, cfg, prj, acall>>

pixels_to_lonlat(px, py, alt_m) ==
    /\ ap' = Convert("pixels_to_lonlat", px, py, alt_m)
    /\ UNCHANGED <<world, service, ctor, builds, thr, returns, repeated, smp, cal, cfg, prj, acall>>

NextAircraft ==
    \/ \E lon \in Shapes, lat \in Shapes, alt_m \in Shapes : lonlat_to_pixels(lon, lat, alt_m)
    \/ \E px \in Shapes, py \in Shapes, alt_m \in Shapes : pixels_to_lonlat(px, py, alt_m)

SpecAircraft == InitAircraft /\ [][NextAircraft]_vars

\* ------------------------------------------------------------------------
\* AircraftProjector: the values of the conversions.
\*
\* Lengths are exact values in metres, coordinates exact values in degrees.
\* An angle is held by what the code takes from it: an azimuth by its
\* cosine and sine, <<cos, sin>> with cos^2 + sin^2 = 1, a zenith below 90
\* degrees by its tangent.  np.degrees and np.radians change the unit an
\* angle is written in and leave cosine, sine and tangent as they are.
\* The inputs lie on directions with rational cosine and sine, where the
\* square roots of the code are rational as well.
\* ------------------------------------------------------------------------

\* Sum, difference and product as RAdd, RSub and RMul give them, with the
\* common factors taken out before multiplying: values in metres and in
\* degrees have large numerators and denominators.
QAdd(a, b) ==
    IF IsNaN(a) \/ IsNaN(b) THEN NaN
    ELSE LET g == GCD(a[2], b[2])
         IN  RNorm(a[1] * (b[2] \div g) + b[1] * (a[2] \div g), a[2] * (b[2] \div g))

QSub(a, b) ==
    IF IsNaN(a) \/ IsNaN(b) THEN NaN
    ELSE LET g == GCD(a[2], b[2])
         IN  RNorm(a[1] * (b[2] \div g) - b[1] * (a[2] \div g), a[2] * (b[2] \div g))

QMul(a, b) ==
    IF IsNaN(a) \/ IsNaN(b) THEN NaN
    ELSE LET g == GCD(Abs(a[1]), b[2])
             h == GCD(Abs(b[1]), a[2])
         IN  RNorm((a[1] \div g) * (b[1] \div h), (a[2] \div h) * (b[2] \div g))

QNeg(a) == QSub(R(0), a)

\* Division by zero is not met on the values of the model.
QDiv(a, b) ==
    IF IsNaN(a) \/ IsNaN(b) \/ b[1] = 0 THEN NaN
    ELSE QMul(a, RNorm(b[2], b[1]))

RCeil(a) == -((-a[1]) \div a[2])

RECURSIVE ISqrtIn(_, _, _)
ISqrtIn(n, lo, hi) ==
    IF lo = hi THEN lo
    ELSE LET mid == (lo + hi + 1) \div 2
         IN  IF mid * mid <= n THEN ISqrtIn(n, mid, hi) ELSE ISqrtIn(n, lo, mid - 1)

\* The integer square root; 46340 is the largest root of a 32-bit square.
ISqrt(n) == ISqrtIn(n, 0, IF n < 46340 THEN n ELSE 46340)

\* sqrt(a**2 + b**2), exact where it is rational: the common factor of a
\* and b is taken out before squaring.
Hypot(a, b) ==
    LET den == (a[2] * b[2]) \div GCD(a[2], b[2])
        u   == a[1] * (den \div a[2])
        v   == b[1] * (den \div b[2])
        g   == GCD(Abs(u), Abs(v))
    IN  IF g = 0 THEN R(0)
        ELSE RNorm(g * ISqrt((u \div g) * (u \div g) + (v \div g) * (v \div g)), den)

\* Azimuths, clockwise from north: north, east, south, west, and the
\* directions of the 3-4-5 triangle in the four quadrants.
North == <<R(1), R(0)>>

East == <<R(0), R(1)>>

Azimuths ==
    {North, East, <<R(-1), R(0)>>, <<R(0), R(-1)>>}
    \cup {<<<<sc * c, 5>>, <<ss * (7 - c), 5>>>> : sc \in {-1, 1}, ss \in {-1, 1}, c \in {3, 4}}

\* np.arctan2(y, x), as a direction: arctan2(0, 0) is 0.
Arctan2(y, x) ==
    LET r == Hypot(x, y)
    IN  IF r = R(0) THEN North ELSE <<QDiv(x, r), QDiv(y, r)>>

\* Geodesic.WGS84 on the plane that touches the ellipsoid at the first
\* point: north and east offsets in metres, DegLen metres to the degree on
\* both axes.
DegLen == 100000

\* Math.AngNormalize: the angle in degrees brought into (-180, 180].
AngNormalize(x) ==
    IF IsNaN(x) THEN NaN
    ELSE QSub(x, R(360 * RCeil(QDiv(QSub(x, R(180)), R(360)))))

\* Geodesic.Inverse(lat1, lon1, lat2, lon2): the azimuth at the first point
\* and the distance.  Between coincident points the azimuth is whatever
\* the library reports, azi0.
Inverse(lat1, lon1, lat2, lon2, azi0) ==
    LET n   == QMul(R(DegLen), QSub(lat2, lat1))
        e   == QMul(R(DegLen), AngNormalize(QSub(lon2, lon1)))
        s12 == Hypot(n, e)
    IN  [azi1 |-> IF s12 = R(0) THEN azi0 ELSE <<QDiv(n, s12), QDiv(e, s12)>>,
         s12  |-> s12]

\* Geodesic.Direct(lat1, lon1, azi1, s12): the second point; its longitude
\* is normalised (the LONG_UNROLL flag is not set).
Direct(lat1, lon1, azi1, s12) ==
    [lat2 |-> QAdd(lat1, QDiv(QMul(s12, azi1[1]), R(DegLen))),
     lon2 |-> AngNormalize(QAdd(AngNormalize(lon1),
                                AngNormalize(QDiv(QMul(s12, azi1[2]), R(DegLen)))))]

\* A settings class whose fields carry no constraint.
AircraftProjectionSettingsUnvalidated(cloud_height, square_size, resolution) ==
    [raised |-> "none",
     obj    |-> [cloud_height |-> cloud_height, square_size |-> square_size,
                 resolution |-> resolution]]

\* AircraftProjectionSettings(cloud_height, square_size, resolution): the
\* fields are validated against ge=100, ge=1000 and ge=64, le=8192; a
\* violation raises pydantic's ValidationError and no object is made.
AircraftProjectionSettings(cloud_height, square_size, resolution) ==
    IF cloud_height >= 100 /\ square_size >= 1000
       /\ resolution >= 64 /\ resolution <= 8192
    THEN [raised |-> "none",
          obj    |-> [cloud_height |-> cloud_height, square_size |-> square_size,
                      resolution |-> resolution]]
    ELSE [raised |-> "ValidationError", obj |-> None]

\* The defaults of the fields.
DefaultSettings == AircraftProjectionSettings(10000, 75000, 1024).obj

\* AircraftProjector.__init__: settings or AircraftProjectionSettings().
AircraftProjector(camera_lat, camera_lon, camera_alt, settings) ==
    LET s == IF settings = None THEN DefaultSettings ELSE settings
    IN  [camera_lat |-> camera_lat, camera_lon |-> camera_lon,
         camera_alt |-> camera_alt, settings |-> s,
         half |-> QDiv(R(s.square_size), R(2)),
         step |-> QDiv(R(s.square_size), R(s.resolution - 1))]

\* _calculate_azimuth_zenith for one point above the camera: zenith is
\* 90 - degrees(arcsin(dz / straight)), whose tangent is s_ground / dz.
CalculateAzimuthZenith(p, lat, lon, alt_m, azi0) ==
    LET g  == Inverse(p.camera_lat, p.camera_lon, lat, lon, azi0)
        dz == QSub(alt_m, p.camera_alt)
    IN  [azimuth |-> g.azi1, zenith |-> QDiv(g.s12, dz)]

\* _azimuth_zenith_to_lonlat: the elevation is 90 - zenith, so
\* dz / tan(elevation) is dz * tan(zenith).
AzimuthZenithToLonlat(p, azimuth, zenith, alt_m) ==
    LET dz == QSub(alt_m, p.camera_alt)
        distance_on_surface == QMul(dz, zenith)
        g  == Direct(p.camera_lat, p.camera_lon, azimuth, distance_on_surface)
    IN  <<g.lon2, g.lat2>>

\* The planar coordinates without the shift to the centre of the grid.
AzimuthZenithToXyUnshifted(p, azimuth, zenith) ==
    LET r == QMul(R(p.settings.cloud_height), zenith)
    IN  <<QMul(r, azimuth[2]), QNeg(QMul(r, azimuth[1]))>>

\* The planar coordinates with cosine and sine exchanged.
AzimuthZenithToXyTransposed(p, azimuth, zenith) ==
    LET r == QMul(R(p.settings.cloud_height), zenith)
        x == QMul(r, azimuth[2])
        y == QMul(r, azimuth[1])
    IN  <<QAdd(y, p.half), QSub(p.half, x)>>

\* _azimuth_zenith_to_xy: r = cloud_height * tan(zenith), x = r * cos(az),
\* y = r * sin(az); the grid coordinates are (y + half, half - x).
AzimuthZenithToXy(p, azimuth, zenith) ==
    LET r == QMul(R(p.settings.cloud_height), zenith)
        x == QMul(r, azimuth[1])
        y == QMul(r, azimuth[2])
    IN  <<QAdd(y, p.half), QSub(p.half, x)>>

\* _xy_to_azimuth_zenith: the azimuth is arctan2(y_centered, x_centered),
\* the zenith arctan(r / cloud_height).
XyToAzimuthZenith(p, x, y) ==
    LET x_centered == QSub(p.half, y)
        y_centered == QSub(x, p.half)
        r == Hypot(x_centered, y_centered)
    IN  [azimuth |-> Arctan2(y_centered, x_centered),
         zenith  |-> QDiv(r, R(p.settings.cloud_height))]

\* The pixel indices in the other order.
XyToPixelsSwapped(p, x, y) == <<QDiv(y, p.step), QDiv(x, p.step)>>

\* _xy_to_pixels
XyToPixels(p, x, y) == <<QDiv(x, p.step), QDiv(y, p.step)>>

\* _pixels_to_xy
PixelsToXy(p, px, py) == <<QMul(px, p.step), QMul(py, p.step)>>

\* lonlat_to_pixels for one point, after the validation of the shapes.
LonlatToPixels(p, lon, lat, alt_m, azi0) ==
    LET a  == CalculateAzimuthZenith(p, lat, lon, alt_m, azi0)
        xy == AzimuthZenithToXy(p, a.azimuth, a.zenith)
    IN  XyToPixels(p, xy[1], xy[2])

\* pixels_to_lonlat for one point, after the validation of the shapes.
PixelsToLonlat(p, px, py, alt_m) ==
    LET xy == PixelsToXy(p, px, py)
        a  == XyToAzimuthZenith(p, xy[1], xy[2])
    IN  AzimuthZenithToLonlat(p, a.azimuth, a.zenith, alt_m)

\* One call of a conversion on arrays of one axis (sequences): the shapes
\* are compared, then every point is converted on its own.  The result
\* holds the locals the properties speak of: azimuth and zenith, and the
\* grid coordinates.
ConvertValues(p, op, a, b, alt_m, azi0) ==
    IF ~ShapesMatch(<<Len(a)>>, <<Len(b)>>, <<Len(alt_m)>>)
    THEN [raised |-> "ValueError", out |-> None, angles |-> None, xy |-> None]
    ELSE IF op = "lonlat_to_pixels"
    THEN LET ang == [k \in 1..Len(a) |->
                        CalculateAzimuthZenith(p, b[k], a[k], alt_m[k], azi0)]
             xy  == [k \in 1..Len(a) |->
                        AzimuthZenithToXy(p, ang[k].azimuth, ang[k].zenith)]
         IN  [raised |-> "none",
              out    |-> <<[k \in 1..Len(a) |-> XyToPixels(p, xy[k][1], xy[k][2])[1]],
                           [k \in 1..Len(a) |-> XyToPixels(p, xy[k][1], xy[k][2])[2]]>>,
              angles |-> ang, xy |-> xy]
    ELSE LET xy  == [k \in 1..Len(a) |-> PixelsToXy(p, a[k], b[k])]
             ang == [k \in 1..Len(a) |-> XyToAzimuthZenith(p, xy[k][1], xy[k][2])]
         IN  [raised |-> "none",
              out    |-> <<[k \in 1..Len(a) |->
                               AzimuthZenithToLonlat(p, ang[k].azimuth, ang[k].zenith,
                                                     alt_m[k])[1]],
                           [k \in 1..Len(a) |->
                               AzimuthZenithToLonlat(p, ang[k].azimuth, ang[k].zenith,
                                                     alt_m[k])[2]]>>,
              angles |-> ang, xy |-> xy]

\* ------------------------------------------------------------------------
\* Geometries.  A geometry is its type, whether its coordinates have a
\* third one, and its parts: a point or a linestring has one part, a
\* polygon one part per ring (the shell, then the holes), a multi-geometry
\* one part per member.  A part is the sequence of its vertices; an empty
\* geometry has no part.
\* ------------------------------------------------------------------------

RECURSIVE Concat(_)
Concat(parts) == IF parts = << >> THEN << >> ELSE Head(parts) \o Concat(Tail(parts))

\* geom.is_empty
IsEmpty(geom) == geom.parts = << >>

\* shapely.get_coordinates(geom, include_z=True): every vertex, in order;
\* the third coordinate of a vertex that has none is NaN.
GetCoordinates(geom) ==
    LET vs == Concat(geom.parts)
    IN  [k \in 1..Len(vs) |-> IF Len(vs[k]) = 3 THEN vs[k] ELSE <<vs[k][1], vs[k][2], NaN>>]

\* How many vertices come before part i.
RECURSIVE Before(_, _)
Before(parts, i) == IF i = 1 THEN 0 ELSE Before(parts, i - 1) + Len(parts[i - 1])

\* shapely.set_coordinates(geom, coords): the same geometry with its
\* vertices replaced in order.
SetCoordinates(geom, coords) ==
    [geom EXCEPT !.parts =
        [i \in 1..Len(geom.parts) |->
            [k \in 1..Len(geom.parts[i]) |-> coords[Before(geom.parts, i) + k]]]]

\* The wrapper with the third column left out of the result.
WrapperFlat(p, op, coords, azi0) ==
    LET r == ConvertValues(p, op, [k \in 1..Len(coords) |-> coords[k][1]],
                           [k \in 1..Len(coords) |-> coords[k][2]],
                           [k \in 1..Len(coords) |-> coords[k][3]], azi0)
    IN  [k \in 1..Len(coords) |-> <<r.out[1][k], r.out[2][k], R(0)>>]

\* wrapper(coords) of _project_geom: the columns are handed to proj_func
\* and the altitude column is stacked onto its result.
Wrapper(p, op, coords, azi0) ==
    LET c1    == [k \in 1..Len(coords) |-> coords[k][1]]
        c2    == [k \in 1..Len(coords) |-> coords[k][2]]
        alt_m == [k \in 1..Len(coords) |-> coords[k][3]]
        r     == ConvertValues(p, op, c1, c2, alt_m, azi0)
    IN  [k \in 1..Len(coords) |-> <<r.out[1][k], r.out[2][k], alt_m[k]>>]

\* A check of the third coordinate that lets every geometry through.
RequireZNever(geom) == "none"

\* if not geom.has_z: raise ValueError(...)
RequireZ(geom) ==
    IF ~geom.has_z
    THEN "ValueError: Coordinates must have Z (altitude in meters). 2D geometry not supported."
    ELSE "none"

\* _project_geom with the check of the third coordinate first.
ProjectGeomAltitudeFirst(p, geom, op, azi0) ==
    IF RequireZ(geom) # "none"
    THEN [raised |-> RequireZ(geom), out |-> None, transformed |-> 0]
    ELSE IF IsEmpty(geom) THEN [raised |-> "none", out |-> geom, transformed |-> 0]
    ELSE [raised |-> "none",
          out |-> SetCoordinates(geom, Wrapper(p, op, GetCoordinates(geom), azi0)),
          transformed |-> Len(GetCoordinates(geom))]

\* _project_geom(geom, proj_func): an empty geometry is returned as it is;
\* a geometry without third coordinate is refused; otherwise
\* shapely.transform hands all the coordinates to the wrapper and puts the
\* result back.  transformed counts the vertices handed to the wrapper.
ProjectGeom(p, geom, op, azi0) ==
    IF IsEmpty(geom) THEN [raised |-> "none", out |-> geom, transformed |-> 0]
    ELSE IF RequireZ(geom) # "none"
    THEN [raised |-> RequireZ(geom), out |-> None, transformed |-> 0]
    ELSE [raised |-> "none",
          out |-> SetCoordinates(geom, Wrapper(p, op, GetCoordinates(geom), azi0)),
          transformed |-> Len(GetCoordinates(geom))]

\* ------------------------------------------------------------------------
\* AircraftProjector: the callers.
\* ------------------------------------------------------------------------

\* Cameras as (camera_lat, camera_lon, camera_alt): one in mid-longitudes,
\* one 0.01 degrees west of the antimeridian.
Cameras == {<<R(48), R(2), R(0)>>, <<R(48), <<17999, 100>>, R(90)>>}

\* Arguments of AircraftProjectionSettings around the limits of the fields.
CloudHeights == {99, 100}

SquareSizes == {999, 1000}

Resolutions == {63, 64, 65, 8192, 8193}

\* Ground distances of the targets from the camera, and their heights
\* above it, in metres.
Distances == {0, 500, 2000}

Heights == {100, 400}

\* The target at ground distance d along azimuth az, dz above the camera,
\* as (lon, lat, alt_m); the longitude is the camera's plus the offset, as
\* a caller computes it.
Target(p, d, az, dz) ==
    <<QAdd(p.camera_lon, QDiv(QMul(R(d), az[2]), R(DegLen))),
      QAdd(p.camera_lat, QDiv(QMul(R(d), az[1]), R(DegLen))),
      QAdd(p.camera_alt, R(dz))>>

LonLatAlts(p) == {Target(p, d, az, dz) : d \in Distances, az \in Azimuths, dz \in Heights}

\* The exact centre pixel, half / step on both axes.
Centre(p) == QDiv(R(p.settings.resolution - 1), R(2))

\* Pixel distances from the centre, in units of five pixels.
PixelRadii == {0, 1, 6}

\* The pixel u pixels from the centre along azimuth az (north is up the
\* image, towards smaller py), as (px, py, alt_m).
Pixel(p, u, az, dz) ==
    <<QAdd(Centre(p), QMul(u, az[2])), QSub(Centre(p), QMul(u, az[1])),
      QAdd(p.camera_alt, R(dz))>>

\* Pixels of [0, resolution - 1]^2: the centre, pixels around it along
\* every azimuth, and the middles of the four edges.
PixelAlts(p) ==
    {Pixel(p, R(5 * u), az, dz) : u \in PixelRadii, az \in Azimuths, dz \in Heights}
    \cup {Pixel(p, Centre(p), az, dz) :
             az \in {North, East, <<R(-1), R(0)>>, <<R(0), R(-1)>>}, dz \in Heights}

\* The vertices of the geometries given to project_geometry and to
\* project_geometry_back.
GeoVertices(p) == {Target(p, 500, North, 100), Target(p, 2000, <<<<3, 5>>, <<4, 5>>>>, 400)}

PixelVertices(p) == {Pixel(p, R(5), East, 100), Pixel(p, R(30), <<<<-4, 5>>, <<3, 5>>>>, 400)}

\* Most vertices of a part.
MaxVertices == 2

\* The geometries over the vertices vs: a point, a linestring, a polygon
\* with a hole, a multi-linestring; each with and without third
\* coordinate; and empty geometries.
Flat(part) == [k \in 1..Len(part) |-> <<part[k][1], part[k][2]>>]

Geometries(vs) ==
    LET three == {[type |-> "Point", has_z |-> TRUE, parts |-> <<<<v>>>>] : v \in vs}
                 \cup {[type |-> "LineString", has_z |-> TRUE, parts |-> <<l>>] :
                          l \in UNION {[1..n -> vs] : n \in 2..MaxVertices}}
                 \cup {[type |-> "Polygon", has_z |-> TRUE,
                        parts |-> <<<<v, w, v>>, <<w, v, w>>>>] : v \in vs, w \in vs}
                 \cup {[type |-> "MultiLineString", has_z |-> TRUE,
                        parts |-> <<<<v, w>>, <<w, v>>>>] : v \in vs, w \in vs}
    IN  three
        \cup {[g EXCEPT !.has_z = FALSE,
                        !.parts = [i \in 1..Len(g.parts) |-> Flat(g.parts[i])]] : g \in three}
        \cup {[type |-> ty, has_z |-> z, parts |-> << >>] :
                 ty \in {"Point", "Polygon", "GeometryCollection"}, z \in BOOLEAN}

\* A thread outside the projector's methods that has called none yet.
NoCall ==
    [pc |-> "idle", op |-> "none", args |-> << >>, from |-> None, raised |-> "none",
     out |-> None, angles |-> None, xy |-> None, transformed |-> 0]

\* What a later call remembers of the call whose result it is given.
Summary(c) == [op |-> c.op, args |-> c.args, out |-> c.out]

InitProjector ==
    /\ world = None
    /\ service = None
    /\ ctor = [called |-> FALSE, lazy_init |-> "absent", raised |-> "none"]
    /\ builds = 0
    /\ thr = [t \in 1..NThreads |-> Idle]
    /\ returns = {}
    /\ repeated = FALSE
    /\ smp = None
    /\ cal = None
    /\ ap = None
    /\ cfg = [args |-> << >>, raised |-> "none", obj |-> None]
    /\ prj = None
    /\ acall = [t \in 1..1 |-> NoCall]

\* AircraftProjectionSettings(cloud_height=..., square_size=..., resolution=...)
ConstructSettings(cloud_height, square_size, resolution) ==
    /\ prj = None
    /\ cfg.obj = None
    /\ \E r \in {AircraftProjectionSettings(cloud_height, square_size, resolution)} :
          cfg' = [args |-> <<cloud_height, square_size, resolution>>,
                  raised |-> r.raised, obj |-> r.obj]
    /\ UNCHANGED <<world, service, ctor, builds, thr, returns, repeated, smp, cal, ap, prj, acall>>

\* AircraftProjector(camera_lat, camera_lon, camera_alt, settings)
ConstructProjector(camera_lat, camera_lon, camera_alt, settings) ==
    /\ prj = None
    /\ prj' = AircraftProjector(camera_lat, camera_lon, camera_alt, settings)
    /\ UNCHANGED <<world, service, ctor, builds, thr, returns, repeated, smp, cal, ap, cfg, acall>>

\* A thread enters a method of the projector with its arguments.
Enter(t, op, args, from) ==
    /\ prj # None
    /\ acall[t].pc # "in"
    /\ acall' = [acall EXCEPT ![t] =
                    [NoCall EXCEPT !.pc = "in", !.op = op, !.args = args, !.from = from]]
    /\ UNCHANGED <<world, service, ctor, builds, thr, returns, repeated, smp, cal, ap, cfg, prj>>

\* The thread's last call has returned a result of method op.
Returned(t, op) ==
    /\ acall[t].pc = "done"
    /\ acall[t].op = op
    /\ acall[t].raised = "none"

\* projector.lonlat_to_pixels(lon, lat, alt_m): on a target, or on what
\* pixels_to_lonlat has just returned, at the same altitudes.
CallLonlatToPixels(t) ==
    /\ prj # None
    /\ \/ /\ acall[t].pc = "idle"
          /\ \E q \in LonLatAlts(prj) :
                Enter(t, "lonlat_to_pixels", <<<<q[1]>>, <<q[2]>>, <<q[3]>>>>, None)
       \/ /\ acall[t].pc = "idle"
          /\ \E q \in LonLatAlts(prj) :
                Enter(t, "lonlat_to_pixels", <<<<q[1]>>, <<q[2]>>, <<q[3], q[3]>>>>, None)
       \/ /\ Returned(t, "pixels_to_lonlat")
          /\ Enter(t, "lonlat_to_pixels",
                   <<acall[t].out[1], acall[t].out[2], acall[t].args[3]>>, Summary(acall[t]))

\* projector.pixels_to_lonlat(px, py, alt_m): on a pixel, or on what
\* lonlat_to_pixels has just returned, at the same altitudes.
CallPixelsToLonlat(t) ==
    /\ prj # None
    /\ \/ /\ acall[t].pc = "idle"
          /\ \E q \in PixelAlts(prj) :
                Enter(t, "pixels_to_lonlat", <<<<q[1]>>, <<q[2]>>, <<q[3]>>>>, None)
       \/ /\ acall[t].pc = "idle"
          /\ \E q \in PixelAlts(prj) :
                Enter(t, "pixels_to_lonlat", <<<<q[1], q[1]>>, <<q[2]>>, <<q[3]>>>>, None)
       \/ /\ Returned(t, "lonlat_to_pixels")
          /\ Enter(t, "pixels_to_lonlat",
                   <<acall[t].out[1], acall[t].out[2], acall[t].args[3]>>, Summary(acall[t]))

\* projector.project_geometry(geom): on a geometry in geographic
\* coordinates, or on what project_geometry_back has just returned.
CallProjectGeometry(t) ==
    /\ prj # None
    /\ \/ /\ acall[t].pc = "idle"
          /\ \E geom \in Geometries(GeoVertices(prj)) :
                Enter(t, "project_geometry", <<geom>>, None)
       \/ /\ Returned(t, "project_geometry_back")
          /\ Enter(t, "project_geometry", <<acall[t].out>>, Summary(acall[t]))

\* projector.project_geometry_back(geom): on a geometry in pixel
\* coordinates, or on what project_geometry has just returned.
CallProjectGeometryBack(t) ==
    /\ prj # None
    /\ \/ /\ acall[t].pc = "idle"
          /\ \E geom \in Geometries(PixelVertices(prj)) :
                Enter(t, "project_geometry_back", <<geom>>, None)
       \/ /\ Returned(t, "project_geometry")
          /\ Enter(t, "project_geometry_back", <<acall[t].out>>, Summary(acall[t]))

\* The conversion a method of the projector applies to coordinates.
ProjFunc(op) ==
    IF op \in {"lonlat_to_pixels", "project_geometry"}
    THEN "lonlat_to_pixels" ELSE "pixels_to_lonlat"

\* The azimuths the geodesic library may report to the call: any of them
\* when a point of the call lies at the camera's position, where the
\* azimuth is not determined; otherwise the report is not used.
PointsOf(c) ==
    IF c.op = "lonlat_to_pixels"
    THEN {<<c.args[1][k], c.args[2][k]>> :
             k \in (1..Len(c.args[1])) \cap (1..Len(c.args[2]))}
    ELSE IF c.op = "project_geometry"
    THEN {<<v[1], v[2]>> : v \in {GetCoordinates(c.args[1])[k] :
                                     k \in 1..Len(GetCoordinates(c.args[1]))}}
    ELSE {}

ReportedAzimuths(p, c) ==
    IF \E q \in PointsOf(c) :
          q[2] = p.camera_lat /\ AngNormalize(QSub(q[1], p.camera_lon)) = R(0)
    THEN Azimuths ELSE {North}

\* The method runs and ends: it reads the fields of the projector, writes
\* none of them, and returns or raises.  azi0 is the azimuth the geodesic
\* library reports between coincident points.
Return(t, azi0) ==
    /\ prj # None
    /\ acall[t].pc = "in"
    /\ \/ /\ acall[t].op \in {"lonlat_to_pixels", "pixels_to_lonlat"}
          /\ \E r \in {ConvertValues(prj, acall[t].op, acall[t].args[1],
                                     acall[t].args[2], acall[t].args[3], azi0)} :
                acall' = [acall EXCEPT ![t].pc = "done", ![t].raised = r.raised,
                                       ![t].out = r.out, ![t].angles = r.angles,
                                       ![t].xy = r.xy]
       \/ /\ acall[t].op \in {"project_geometry", "project_geometry_back"}
          /\ \E r \in {ProjectGeom(prj, acall[t].args[1], ProjFunc(acall[t].op), azi0)} :
                acall' = [acall EXCEPT ![t].pc = "done", ![t].raised = r.raised,
                                       ![t].out = r.out,
                                       ![t].transformed = r.transformed]
    /\ UNCHANGED <<world, service, ctor, builds, thr, returns, repeated, smp, cal, ap, cfg, prj>>

\* The caller lets go of the result of its last call.
Drop(t) ==
    /\ acall[t].pc = "done"
    /\ acall' = [acall EXCEPT ![t] = NoCall]
    /\ UNCHANGED <<world, service, ctor, builds, thr, returns, repeated, smp, cal, ap, cfg, prj>>

\* Assignment to a field of the settings with the freeze left out.
SetAttrThawed(settings, field, value) ==
    [raised |-> "none",
     obj    |-> IF field = "cloud_height" THEN [settings EXCEPT !.cloud_height = value]
                ELSE IF field = "square_size" THEN [settings EXCEPT !.square_size = value]
                ELSE [settings EXCEPT !.resolution = value]]

\* settings.<field> = value on a model declared frozen=True: pydantic
\* raises ValidationError and the object is as before.
SetAttr(settings, field, value) == [raised |-> "ValidationError", obj |-> settings]

\* projector.settings.<field> = value
AssignSettingsField(t, field, value) ==
    /\ prj # None
    /\ acall[t].pc # "in"
    /\ \E r \in {SetAttr(prj.settings, field, value)} :
          /\ prj' = [prj EXCEPT !.settings = r.obj]
          /\ acall' = [acall EXCEPT ![t] =
                          [NoCall EXCEPT !.pc = "done", !.op = "setattr",
                                         !.args = <<field, value>>,
                                         !.raised = r.raised]]
    /\ UNCHANGED <<world, service, ctor, builds, thr, returns, repeated, smp, cal, ap, cfg>>

SettingsFields == {"cloud_height", "square_size", "resolution"}

NextProjector ==
    \/ \E cloud_height \in CloudHeights, square_size \in SquareSizes,
          resolution \in Resolutions :
          ConstructSettings(cloud_height, square_size, resolution)
    \/ \E c \in Cameras : cfg.args = << >> /\ ConstructProjector(c[1], c[2], c[3], None)
    \/ \E c \in Cameras : cfg.obj # None /\ ConstructProjector(c[1], c[2], c[3], cfg.obj)
    \/ \E t \in DOMAIN acall : CallLonlatToPixels(t)
    \/ \E t \in DOMAIN acall : CallPixelsToLonlat(t)
    \/ \E t \in DOMAIN acall : CallProjectGeometry(t)
    \/ \E t \in DOMAIN acall : CallProjectGeometryBack(t)
    \/ \E t \in DOMAIN acall :
          /\ prj # None
          /\ \E azi0 \in ReportedAzimuths(prj, acall[t]) : Return(t, azi0)
    \/ \E t \in DOMAIN acall : Drop(t)
    \/ \E t \in DOMAIN acall, field \in SettingsFields :
          AssignSettingsField(t, field, 5000)

SpecProjector == InitProjector /\ [][NextProjector]_vars

\* ------------------------------------------------------------------------
\* AircraftProjector: threads that share one projector.
\* ------------------------------------------------------------------------

\* What the threads call, as (method, arguments): each conversion on one
\* point, lonlat_to_pixels also on arguments of unequal shapes; the
\* geometry methods on a point and a linestring with altitudes,
\* project_geometry also on a point without.
ThreadCalls(p) ==
    LET q == Target(p, 500, North, 100)
        x == Pixel(p, R(5), East, 100)
    IN  {<<"lonlat_to_pixels", <<<<q[1]>>, <<q[2]>>, <<q[3]>>>>>>,
         <<"lonlat_to_pixels", <<<<q[1]>>, <<q[2]>>, <<q[3], q[3]>>>>>>,
         <<"pixels_to_lonlat", <<<<x[1]>>, <<x[2]>>, <<x[3]>>>>>>,
         <<"project_geometry",
           <<[type |-> "Point", has_z |-> TRUE, parts |-> <<<<q>>>>]>>>>,
         <<"project_geometry",
           <<[type |-> "Point", has_z |-> FALSE, parts |-> <<<<<<q[1], q[2]>>>>>>]>>>>,
         <<"project_geometry_back",
           <<[type |-> "LineString", has_z |-> TRUE, parts |-> <<<<x, x>>>>]>>>>}

\* A projector with settings at the lower limits of the fields, shared by
\* NThreads threads.
InitThreads ==
    /\ world = None
    /\ service = None
    /\ ctor = [called |-> FALSE, lazy_init |-> "absent", raised |-> "none"]
    /\ builds = 0
    /\ thr = [t \in 1..NThreads |-> Idle]
    /\ returns = {}
    /\ repeated = FALSE
    /\ smp = None
    /\ cal = None
    /\ ap = None
    /\ cfg = [args |-> <<100, 1000, 64>>, raised |-> "none",
              obj |-> AircraftProjectionSettings(100, 1000, 64).obj]
    /\ prj \in {AircraftProjector(c[1], c[2], c[3], cfg.obj) : c \in Cameras}
    /\ acall = [t \in 1..NThreads |-> NoCall]

NextThreads ==
    \/ \E t \in DOMAIN acall :
          /\ prj # None
          /\ acall[t].pc = "idle"
          /\ \E c \in ThreadCalls(prj) : Enter(t, c[1], c[2], None)
    \/ \E t \in DOMAIN acall :
          /\ prj # None
          /\ \E azi0 \in ReportedAzimuths(prj, acall[t]) : Return(t, azi0)
    \/ \E t \in DOMAIN acall : Drop(t)
    \/ \E t \in DOMAIN acall, field \in SettingsFields :
          AssignSettingsField(t, field, 5000)

SpecThreads == InitThreads /\ [][NextThreads]_vars

\* ------------------------------------------------------------------------
\* Properties of the projection service.
\* ------------------------------------------------------------------------

NotInitialized ==
    {"ProjectionError: Interpolators not initialized",
     "ProjectionError: Grid not initialized"}

ProjectionErrors == NotInitialized \cup {"ProjectionError: Projection failed"}

\* <<H, W>> of an image, << >> for an array of fewer than two axes.
HeightWidth(image) ==
    IF Len(Image(image).shape) < 2 THEN << >>
    ELSE <<Image(image).shape[1], Image(image).shape[2]>>

\* C1: a ProjectionService created with lazy_init=True exists and is unbuilt
\* (its interpolant is None) when the constructor returns and until its
\* first use, and no project call on it raises a 'not initialized'
\* ProjectionError.
C1_LazyInitBuildsOnFirstUse ==
    (ctor.called /\ ctor.lazy_init = "True") =>
        /\ ctor.raised = "none"
        /\ service # None
        /\ (returns = {} /\ \A t \in 1..NThreads : thr[t].pc = "idle")
              => service.azimuth_zenith_to_pixel_raw = None
        /\ \A r \in returns : r.raised \notin NotInitialized

\* C2: the interpolant of an instance is built exactly once, and no thread
\* is inside project, evaluating the interpolant, unless that build has
\* completed and the instance holds the interpolant and the grid.
C2_BuiltOnceBeforeAnyUse ==
    /\ builds <= 1
    /\ service # None =>
          /\ builds = 1
          /\ service.azimuth_zenith_to_pixel_raw # None
          /\ service.azimuth_zenith_grid # None
    /\ \A t \in 1..NThreads : thr[t].pc # "idle" => service # None /\ builds = 1
    /\ \A r \in returns : r.raised \notin NotInitialized

\* C22: a ProjectionService constructed without a lazy flag holds both the
\* interpolant and the output grid when the constructor returns, and no
\* project call on it raises 'Interpolators not initialized' or 'Grid not
\* initialized'.
C22_DefaultConstructionIsEager ==
    (ctor.called /\ ctor.lazy_init = "absent" /\ ctor.raised = "none") =>
        /\ service # None
        /\ service.azimuth_zenith_to_pixel_raw # None
        /\ service.azimuth_zenith_grid # None
        /\ \A r \in returns : r.raised \notin NotInitialized

\* The constructor was called without a lazy flag and returned; both images
\* the callers hold have then been put to project on the instance, and no
\* call is in progress.
C22_DefaultConstructedThenProjected ==
    /\ ctor.called
    /\ ctor.lazy_init = "absent"
    /\ ctor.raised = "none"
    /\ service # None
    /\ {r.image : r \in returns} = world.images
    /\ \A t \in 1..NThreads : thr[t].pc = "idle"

\* Two threads are inside project at once, both past its guards.
C2_TwoThreadsInProject ==
    /\ builds = 1
    /\ returns = {}
    /\ thr[1].pc = "try"
    /\ thr[2].pc = "try"

\* C3: once built, the service is read-only: no step, of a project call
\* that returns or of one that raises, changes the interpolant, the grid,
\* the calibration or the settings, and nothing is built again.
C3_ReadOnlyAfterBuild ==
    [][service # None => (service' = service /\ builds' = builds)]_vars

\* Calls that returned a grid and calls that raised have both ended, and
\* the service holds what the build made.
C3_AfterReturnsAndRaises ==
    /\ service # None
    /\ service.azimuth_zenith_to_pixel_raw # None
    /\ \E r \in returns : r.raised = "none"
    /\ \E r \in returns : r.raised = "ProjectionError: Projection failed"

\* C4: project raises ProjectionError and returns no grid whenever the
\* (height, width) of the image differs from calibration.image_size.
C4_ShapeMismatchRaises ==
    \A r \in returns :
        HeightWidth(r.image) # world.calibration.image_size
            => r.raised \in ProjectionErrors /\ r.out = None

\* The cells of the output grid that the interpolant leaves NaN: those
\* whose (azimuth, zenith) is outside the hull of the retained samples.
OutOfHull ==
    {c \in DOMAIN service.azimuth_zenith_grid.at :
        IsNaN(service.azimuth_zenith_to_pixel_raw.at[service.azimuth_zenith_grid.at[c]][1])}

\* C5: every out-of-hull cell of the grid returned for an image of the
\* calibration's size is 0 in every channel, in uint8 and in float64
\* alike: no NaN reaches the output.
C5_OutOfHullIsZero ==
    \A r \in returns :
        (r.raised = "none" /\ HeightWidth(r.image) = world.calibration.image_size) =>
            \A c \in OutOfHull :
                \A ch \in DOMAIN r.out.data[c] : r.out.data[c][ch] = R(0)

\* C8: the grid returned for an image of the calibration's size has exactly
\* resolution rows and resolution columns (and the channels of the image).
C8_OutputIsResolutionSquare ==
    \A r \in returns :
        (r.raised = "none" /\ HeightWidth(r.image) = world.calibration.image_size) =>
            /\ DOMAIN r.out.data
                  = (1..world.settings.resolution) \X (1..world.settings.resolution)
            /\ \A c \in DOMAIN r.out.data :
                  DOMAIN r.out.data[c] = 1..Image(r.image).shape[3]

Sampled == smp # None /\ smp.out # None

Zeros(k) == \A ch \in DOMAIN smp.out[k] : smp.out[k][ch] = R(0)

QueryIsNaN(k) == IsNaN(smp.rows[k]) \/ IsNaN(smp.cols[k])

LastRow == R(Image(smp.image).shape[1] - 1)

LastCol == R(Image(smp.image).shape[2] - 1)

QueryIsOutside(k) ==
    /\ ~QueryIsNaN(k)
    /\ \/ RLt(smp.rows[k], R(0)) \/ RLt(LastRow, smp.rows[k])
       \/ RLt(smp.cols[k], R(0)) \/ RLt(LastCol, smp.cols[k])

\* C6: a query outside [0, H-1] x [0, W-1], or with a NaN coordinate, is
\* answered with zero in every channel.
C6_OutsideOrNaNIsZero ==
    Sampled => \A k \in 1..BatchLen : (QueryIsOutside(k) \/ QueryIsNaN(k)) => Zeros(k)

\* C7: a query on the last row or the last column of the image is answered
\* with zero in every channel, and the query (0, 0) with the pixel I[0,0].
C7_FarBoundaryIsZero ==
    Sampled =>
        \A k \in 1..BatchLen :
            /\ (~QueryIsNaN(k) /\ ~QueryIsOutside(k)
                  /\ (smp.rows[k] = LastRow \/ smp.cols[k] = LastCol)) => Zeros(k)
            /\ (smp.rows[k] = R(0) /\ smp.cols[k] = R(0)) =>
                  smp.out[k] = [ch \in DOMAIN smp.out[k] |->
                                   R(Image(smp.image).px[<<0, 0>>][ch])]

\* The raw pixel I[i, j] as the sampler returns it: one value per channel.
RawPixel(i, j) ==
    [ch \in 1..Image(smp.image).shape[3] |-> R(Image(smp.image).px[<<i, j>>][ch])]

\* Query k is the integer coordinate <<i, j>>.
QueryIs(k, i, j) == smp.rows[k] = R(i) /\ smp.cols[k] = R(j)

\* C21: a query at an integer coordinate (r, c) with 0 <= r < H-1 and
\* 0 <= c < W-1 is answered with exactly the raw pixel I[r, c] in every
\* channel: the neighbouring pixels contribute nothing.
C21_IntegerQueryIsRawPixel ==
    Sampled =>
        \A k \in 1..BatchLen :
            \A i \in 0..(Image(smp.image).shape[1] - 2),
               j \in 0..(Image(smp.image).shape[2] - 2) :
                QueryIs(k, i, j) => smp.out[k] = RawPixel(i, j)

\* A batch was sampled that holds the integer queries (1, 1) and (0, 1) of
\* the 3 x 3 image and the query (0, 0).
C21_InteriorIntegerSampled ==
    /\ Sampled
    /\ smp.image = "big"
    /\ QueryIs(1, 1, 1)
    /\ QueryIs(2, 0, 0)
    /\ smp.out[1] = RawPixel(1, 1)
    /\ smp.out[2] = RawPixel(0, 0)

\* ------------------------------------------------------------------------
\* Properties of the calibration masking.
\* ------------------------------------------------------------------------

Masked == cal # None /\ cal.samples # None

\* The raw pixels <<i, j>> (from 1) of the calibration maps.
RawPixels == (1..cal.calibration.image_size[1]) \X (1..cal.calibration.image_size[2])

\* <<azimuth, zenith>> of the calibration at raw pixel p.
CalibrationAt(p) ==
    <<cal.calibration.azimuth_array[p[1]][p[2]], cal.calibration.zenith_array[p[1]][p[2]]>>

\* The point that raw pixel p gives the interpolant: its azimuth and zenith
\* in lattice units.
PointAt(p) == <<CalibrationAt(p)[1][1], CalibrationAt(p)[2][1]>>

\* Raw pixel p has an azimuth, a zenith, and a zenith that does not exceed
\* max_zenith_angle.
WithinLimit(p) ==
    /\ ~IsNaN(CalibrationAt(p)[1])
    /\ ~IsNaN(CalibrationAt(p)[2])
    /\ ~RLt(R(cal.settings.max_zenith_angle), CalibrationAt(p)[2])

\* C23: the samples hold exactly one sample for every raw pixel whose
\* azimuth and zenith are not NaN and whose zenith does not exceed
\* max_zenith_angle (a zenith equal to it is kept), and no other sample.
C23_SamplesAreTheValidPixels ==
    Masked =>
        LET points == cal.samples.points
        IN  /\ \A p \in RawPixels :
                 WithinLimit(p) =>
                    Cardinality({i \in DOMAIN points : points[i] = PointAt(p)}) = 1
            /\ \A i \in DOMAIN points :
                 \E p \in RawPixels : WithinLimit(p) /\ points[i] = PointAt(p)

\* A 2 x 3 calibration was masked that holds a pixel with a NaN azimuth
\* only, one with a NaN zenith only and one beyond max_zenith_angle, and the
\* pixel whose zenith is max_zenith_angle itself is among the samples.
C23_EveryMaskMet ==
    /\ Masked
    /\ cal.calibration.image_size = <<2, 3>>
    /\ \E p \in RawPixels : IsNaN(CalibrationAt(p)[1]) /\ ~IsNaN(CalibrationAt(p)[2])
    /\ \E p \in RawPixels : ~IsNaN(CalibrationAt(p)[1]) /\ IsNaN(CalibrationAt(p)[2])
    /\ \E p \in RawPixels : RLt(R(cal.settings.max_zenith_angle), CalibrationAt(p)[2])
    /\ \E i \in DOMAIN cal.samples.points :
          cal.samples.points[i][2] = cal.settings.max_zenith_angle
    /\ Len(cal.samples.points) = 2

\* C24: every sample is paired with the (row, col) of the raw pixel it came
\* from, whatever image_size = (H, W) is: points and values have one length
\* and the paired raw pixel is a valid one whose calibration is the sample's
\* point.
C24_SamplesPairedWithOwnPixel ==
    Masked =>
        LET points == cal.samples.points
            values == cal.samples.values
        IN  /\ Len(values) = Len(points)
            /\ \A i \in DOMAIN points :
                 /\ <<values[i][1] + 1, values[i][2] + 1>> \in RawPixels
                 /\ WithinLimit(<<values[i][1] + 1, values[i][2] + 1>>)
                 /\ PointAt(<<values[i][1] + 1, values[i][2] + 1>>) = points[i]

\* A 3 x 2 calibration was masked that lost its first raw pixel, and the
\* last sample is paired with the raw pixel (2, 1).
C24_NonSquareMasked ==
    /\ Masked
    /\ cal.calibration.image_size = <<3, 2>>
    /\ ~WithinLimit(<<1, 1>>)
    /\ Len(cal.samples.values) = 5
    /\ cal.samples.values[5] = <<2, 1>>

\* ------------------------------------------------------------------------
\* Properties of the AircraftProjector conversions.
\* ------------------------------------------------------------------------

RLe(a, b) == ~IsNaN(a) /\ ~IsNaN(b) /\ a[1] * b[2] <= b[1] * a[2]

RAbs(a) == <<Abs(a[1]), a[2]>>

\* The thread's last call was given the result of a call of method op.
GivenResultOf(t, op) == acall[t].from # None /\ acall[t].from.op = op

\* Every point of the arguments lies within one degree of the camera in
\* longitude and in latitude, at least dz metres above it.
NearCamera(p, args, dz) ==
    \A k \in 1..Len(args[1]) :
        /\ RLe(RAbs(QSub(args[1][k], p.camera_lon)), R(1))
        /\ RLe(RAbs(QSub(args[2][k], p.camera_lat)), R(1))
        /\ RLe(QAdd(p.camera_alt, R(dz)), args[3][k])

\* C11: a position within one degree of the camera, at least 100 m above
\* it, that is converted to pixels and back at the same altitude comes
\* back as the longitude and latitude it was.
C11_GeoRoundTrip ==
    \A t \in DOMAIN acall :
        (/\ Returned(t, "pixels_to_lonlat")
         /\ GivenResultOf(t, "lonlat_to_pixels")
         /\ NearCamera(prj, acall[t].from.args, 100))
        => /\ acall[t].out[1] = acall[t].from.args[1]
           /\ acall[t].out[2] = acall[t].from.args[2]

\* Every pixel of the arguments lies in [0, resolution - 1]^2, at least dz
\* metres above the camera.
InPixelGrid(p, args, dz) ==
    \A k \in 1..Len(args[1]) :
        /\ RLe(R(0), args[1][k]) /\ RLe(args[1][k], R(p.settings.resolution - 1))
        /\ RLe(R(0), args[2][k]) /\ RLe(args[2][k], R(p.settings.resolution - 1))
        /\ RLe(QAdd(p.camera_alt, R(dz)), args[3][k])

C13_CentreInvariance ==
    \A t \in DOMAIN acall :
        /\ Returned(t, "lonlat_to_pixels") =>
              \A k \in 1..Len(acall[t].args[1]) :
                  (/\ acall[t].args[1][k] = prj.camera_lon
                   /\ acall[t].args[2][k] = prj.camera_lat
                   /\ RLt(prj.camera_alt, acall[t].args[3][k]))
                  => /\ acall[t].out[1][k] = QDiv(prj.half, prj.step)
                     /\ acall[t].out[2][k] = QDiv(prj.half, prj.step)
        /\ Returned(t, "pixels_to_lonlat") =>
              \A k \in 1..Len(acall[t].args[1]) :
                  (/\ acall[t].args[1][k] = QDiv(prj.half, prj.step)
                   /\ acall[t].args[2][k] = QDiv(prj.half, prj.step)
                   /\ RLt(prj.camera_alt, acall[t].args[3][k]))
                  => /\ acall[t].out[1][k] = prj.camera_lon
                     /\ acall[t].out[2][k] = prj.camera_lat

\* The camera's position has been converted with an azimuth other than
\* north reported for the zero ground distance.
C13_CameraPositionConverted ==
    \E t \in DOMAIN acall :
        /\ Returned(t, "lonlat_to_pixels")
        /\ acall[t].from = None
        /\ acall[t].args[1] = <<prj.camera_lon>>
        /\ acall[t].args[2] = <<prj.camera_lat>>
        /\ acall[t].angles[1].azimuth = <<<<-3, 5>>, <<4, 5>>>>
        /\ acall[t].angles[1].zenith = R(0)

\* The grid coordinates (gx, gy) of the points of the thread's last
\* lonlat_to_pixels call that lie at the given azimuth, at a zenith in
\* (0, 90 degrees).
GridAt(t, azimuth) ==
    IF ~Returned(t, "lonlat_to_pixels") THEN {}
    ELSE {acall[t].xy[k] : k \in {i \in 1..Len(acall[t].xy) :
                                     /\ acall[t].angles[i].azimuth = azimuth
                                     /\ RLt(R(0), acall[t].angles[i].zenith)}}

NonEmpty3D(geom) == ~IsEmpty(geom) /\ geom.has_z

\* A geometry of the same type as geom, with as many parts and as many
\* vertices in each, every vertex with the third coordinate of the vertex
\* of geom in its place.
SameFrame(out, geom) ==
    /\ out.type = geom.type
    /\ out.has_z = geom.has_z
    /\ Len(out.parts) = Len(geom.parts)
    /\ \A i \in 1..Len(geom.parts) :
          /\ Len(out.parts[i]) = Len(geom.parts[i])
          /\ \A k \in 1..Len(geom.parts[i]) : out.parts[i][k][3] = geom.parts[i][k][3]

\* Vertex k of part i of out is the conversion of vertex k of part i of
\* geom.
SameOrder(out, geom, op) ==
    \A i \in 1..Len(geom.parts) : \A k \in 1..Len(geom.parts[i]) :
        LET v == geom.parts[i][k]
            w == IF op = "project_geometry"
                 THEN LonlatToPixels(prj, v[1], v[2], v[3], North)
                 ELSE PixelsToLonlat(prj, v[1], v[2], v[3])
        IN  out.parts[i][k][1] = w[1] /\ out.parts[i][k][2] = w[2]

\* C15: project_geometry and project_geometry_back return, for a geometry
\* that has vertices with altitudes, a geometry of the same type with the
\* same vertices in the same order, each converted and with its altitude
\* as given; a geometry projected and projected back has the altitudes it
\* had at first.
C15_GeometryFrameKept ==
    \A t \in DOMAIN acall :
        (/\ acall[t].pc = "done"
         /\ acall[t].op \in {"project_geometry", "project_geometry_back"}
         /\ NonEmpty3D(acall[t].args[1]))
        => /\ acall[t].raised = "none"
           /\ SameFrame(acall[t].out, acall[t].args[1])
           /\ SameOrder(acall[t].out, acall[t].args[1], acall[t].op)
           /\ (acall[t].op = "project_geometry_back"
               /\ GivenResultOf(t, "project_geometry"))
              => SameFrame(acall[t].out, acall[t].from.args[1])

\* A polygon with a hole has been projected and projected back.
C15_PolygonThereAndBack ==
    \E t \in DOMAIN acall :
        /\ Returned(t, "project_geometry_back")
        /\ GivenResultOf(t, "project_geometry")
        /\ acall[t].from.args[1].type = "Polygon"
        /\ NonEmpty3D(acall[t].from.args[1])
        /\ acall[t].from.args[1].parts[1][1] # acall[t].from.args[1].parts[1][2]

\* The message of the error raised for a geometry without altitudes.
AltitudeMissing ==
    "ValueError: Coordinates must have Z (altitude in meters). 2D geometry not supported."

\* C16: for a geometry that has vertices and no third coordinate,
\* project_geometry and project_geometry_back raise the altitude-missing
\* error and return no geometry, and no vertex has been handed to the
\* conversion.
C16_NoAltitudeRaises ==
    \A t \in DOMAIN acall :
        (/\ acall[t].pc = "done"
         /\ acall[t].op \in {"project_geometry", "project_geometry_back"}
         /\ ~IsEmpty(acall[t].args[1])
         /\ ~acall[t].args[1].has_z)
        => /\ acall[t].raised = AltitudeMissing
           /\ acall[t].out = None
           /\ acall[t].transformed = 0

\* A linestring without altitudes has been given to project_geometry_back.
C16_FlatLineStringGiven ==
    \E t \in DOMAIN acall :
        /\ acall[t].pc = "done"
        /\ acall[t].op = "project_geometry_back"
        /\ acall[t].args[1].type = "LineString"
        /\ ~IsEmpty(acall[t].args[1])
        /\ ~acall[t].args[1].has_z

\* C17: an empty geometry is returned as it is by project_geometry and
\* project_geometry_back, without error, also when it has no third
\* coordinate, and no vertex has been handed to the conversion.
C17_EmptyReturnedUnchanged ==
    \A t \in DOMAIN acall :
        (/\ acall[t].pc = "done"
         /\ acall[t].op \in {"project_geometry", "project_geometry_back"}
         /\ IsEmpty(acall[t].args[1]))
        => /\ acall[t].raised = "none"
           /\ acall[t].out = acall[t].args[1]
           /\ acall[t].transformed = 0

\* An empty geometry without third coordinate has been given to
\* project_geometry.
C17_EmptyFlatGiven ==
    \E t \in DOMAIN acall :
        /\ acall[t].pc = "done"
        /\ acall[t].op = "project_geometry"
        /\ IsEmpty(acall[t].args[1])
        /\ ~acall[t].args[1].has_z

\* ------------------------------------------------------------------------
\* Properties of the construction of the projection service and of the
\* projector's settings.
\* ------------------------------------------------------------------------

\* C18: when fewer than three samples that are not on one line are left
\* after masking, none left included, the constructor fails with a
\* CalibrationError and there is no service that a project call could
\* evaluate.
C18_DegenerateRaisesCalibrationError ==
    (ctor.called /\ ctor.lazy_init = "absent" /\ world.calibration \in Degenerate)
    => /\ ctor.raised = "CalibrationError"
       /\ service = None
       /\ \A t \in world.threads : thr[t].pc = "idle"

\* The arguments of the last AircraftProjectionSettings call lie outside
\* the ranges of the fields.
OutOfRange ==
    /\ cfg.args # << >>
    /\ \/ cfg.args[1] < 100
       \/ cfg.args[2] < 1000
       \/ cfg.args[3] < 64
       \/ cfg.args[3] > 8192

\* The settings lie in the ranges of the fields.
InRange(s) ==
    /\ s.cloud_height >= 100
    /\ s.square_size >= 1000
    /\ s.resolution >= 64
    /\ s.resolution <= 8192

\* Every settings object there is lies in the ranges, and the divisor of
\* step = square_size / (resolution - 1) is not zero.
SettingsSound ==
    /\ cfg.obj # None => InRange(cfg.obj)
    /\ prj # None => InRange(prj.settings) /\ prj.settings.resolution - 1 # 0

C20_ProjectorNeverChanges ==
    [][/\ prj' = prj
       /\ \A t \in DOMAIN acall :
             acall'[t].op = "setattr" => acall'[t].raised = "ValidationError"]_vars

\* One thread has tried to assign a field of the settings while another
\* is inside project_geometry.
C20_AssignmentAmongCalls ==
    \E t \in DOMAIN acall, u \in DOMAIN acall :
        /\ acall[t].op = "setattr"
        /\ acall[u].op = "project_geometry"
        /\ acall[u].pc = "in"

====
